---- MODULE Spec2Model ----
(***************************************************************************)
(* Document ingestion of company-on: upload sessions, documents, the       *)
(* processing pipeline (download, extract, document record, chunk, embed   *)
(* and persist, complete) and the sentence chunker.                        *)
(*                                                                         *)
(* Spec        : the upload/ingestion state machine (routers, services,    *)
(*               background pipeline runs, Celery tasks).                  *)
(* SpecChunker : TextChunker.chunk_text applied to bounded inputs.         *)
(* SpecSearch  : SearchService._combine_results and hybrid_search applied  *)
(*               to bounded result rows.                                   *)
(* SpecEmbed   : EmbeddingService.generate_embeddings_batch applied to     *)
(*               bounded batches of texts.                                 *)
(* SpecStatus  : GET /documents/processing/status/{upload_id} on the       *)
(*               sessions the upload routes build.                         *)
(* SpecDelete  : deletion of documents and upload sessions, the cleanup    *)
(*               tasks, and DocumentService.create_document_chunk.         *)
(***************************************************************************)
EXTENDS Integers, Sequences, FiniteSets, TLC

VARIABLES sessions, documents, next_document_id, chunks, storage, runs,
          celery_queue, chunker_text, chunker_result, chunker_pc,
          search_rows, search_result, search_pc,
          embed_call, embed_result, embed_pc, status_response

vars == <<sessions, documents, next_document_id, chunks, storage, runs,
          celery_queue, chunker_text, chunker_result, chunker_pc,
          search_rows, search_result, search_pc,
          embed_call, embed_result, embed_pc, status_response>>

chunker_vars == <<chunker_text, chunker_result, chunker_pc>>
search_vars == <<search_rows, search_result, search_pc>>
embed_vars == <<embed_call, embed_result, embed_pc>>
ingest_vars == <<sessions, documents, next_document_id, chunks, storage, runs,
                 celery_queue>>

(***************************************************************************)
(* Bounds of the model.                                                    *)
(***************************************************************************)
MaxRuns == 2
MaxDocuments == 2
MaxTasks == 1
MaxSentences == 3
MaxChunks == 3
MaxLimit == 2
MaxTexts == 250
MaxStoredChunks == 2

UploadIds == {"u1"}
DocumentIds == 1..MaxDocuments

\* token counts of the sentences the chunker inputs are built from
TokenCounts == {20, 40, 100, 500, 1100}

(***************************************************************************)
(* TextChunker                                                             *)
(***************************************************************************)
chunk_size == 512
chunk_overlap == 50
max_chunk_size == 1024

\* a text, once split, is a sequence of sentences; a sentence is known by its
\* position in the text and its token count len(tokenizer.encode(sentence))
Sentences(token_counts) ==
  [i \in 1..Len(token_counts) |-> [id |-> i, tokens |-> token_counts[i]]]

create_chunk_data(sentences, token_count, chunk_index, document_id) ==
  [document_id |-> document_id,
   chunk_index |-> chunk_index,
   content |-> [i \in 1..Len(sentences) |-> sentences[i].id],
   token_count |-> token_count,
   sentence_count |-> Len(sentences)]

RECURSIVE OverlapWalk(_, _, _, _)
OverlapWalk(current_chunk, i, overlap_sentences, overlap_tokens) ==
  IF i = 0
  THEN <<overlap_sentences, overlap_tokens>>
  ELSE IF overlap_tokens + current_chunk[i].tokens <= chunk_overlap
       THEN OverlapWalk(current_chunk, i - 1,
                        <<current_chunk[i]>> \o overlap_sentences,
                        overlap_tokens + current_chunk[i].tokens)
       ELSE <<overlap_sentences, overlap_tokens>>

\* an overlap window of at most one sentence: the last sentence of the closed
\* chunk when it fits the budget
prepare_next_chunk_last_sentence_only(current_chunk) ==
  IF current_chunk = <<>> \/ chunk_overlap = 0
  THEN <<(<<>>), 0>>
  ELSE IF current_chunk[Len(current_chunk)].tokens <= chunk_overlap
       THEN <<(<<current_chunk[Len(current_chunk)]>>), current_chunk[Len(current_chunk)].tokens>>
       ELSE <<(<<>>), 0>>

prepare_next_chunk(current_chunk) ==
  IF current_chunk = <<>> \/ chunk_overlap = 0
  THEN <<(<<>>), 0>>
  ELSE OverlapWalk(current_chunk, Len(current_chunk), <<>>, 0)

\* one iteration of the loop over the sentences; st is the loop state
ChunkLoopStep(st, sentence, document_id) ==
  IF st.current_tokens + sentence.tokens <= chunk_size \/ Len(st.current_chunk) = 0
  THEN LET cc == Append(st.current_chunk, sentence)
           ct == st.current_tokens + sentence.tokens
       IN IF ct >= max_chunk_size
          THEN LET nxt == prepare_next_chunk(cc)
               IN [chunks |-> Append(st.chunks,
                                     create_chunk_data(cc, ct, st.chunk_index, document_id)),
                   current_chunk |-> nxt[1],
                   current_tokens |-> nxt[2],
                   chunk_index |-> st.chunk_index + 1]
          ELSE [st EXCEPT !.current_chunk = cc, !.current_tokens = ct]
  ELSE LET nxt == prepare_next_chunk(st.current_chunk)
       IN [chunks |-> Append(st.chunks,
                             create_chunk_data(st.current_chunk, st.current_tokens,
                                               st.chunk_index, document_id)),
           current_chunk |-> Append(nxt[1], sentence),
           current_tokens |-> nxt[2] + sentence.tokens,
           chunk_index |-> st.chunk_index + 1]

RECURSIVE ChunkLoop(_, _, _, _)
ChunkLoop(st, sentences, i, document_id) ==
  IF i > Len(sentences)
  THEN st
  ELSE ChunkLoop(ChunkLoopStep(st, sentences[i], document_id), sentences, i + 1, document_id)

\* _create_chunks_from_sentences without its handling of the last chunk: the
\* sentences still in current_chunk when the loop ends are lost
create_chunks_without_last_chunk(sentences, document_id) ==
  ChunkLoop([chunks |-> <<>>, current_chunk |-> <<>>,
             current_tokens |-> 0, chunk_index |-> 0],
            sentences, 1, document_id).chunks

create_chunks_from_sentences(sentences, document_id) ==
  LET st == ChunkLoop([chunks |-> <<>>, current_chunk |-> <<>>,
                       current_tokens |-> 0, chunk_index |-> 0],
                      sentences, 1, document_id)
  IN IF st.current_chunk # <<>>
     THEN Append(st.chunks,
                 create_chunk_data(st.current_chunk, st.current_tokens,
                                   st.chunk_index, document_id))
     ELSE st.chunks

\* the merge loop without the check against max_chunk_size
RECURSIVE MergeLoopWithoutCeiling(_, _, _)
MergeLoopWithoutCeiling(optimized_chunks, chunks_in, i) ==
  IF i > Len(chunks_in)
  THEN optimized_chunks
  ELSE LET chunk == chunks_in[i]
           n == Len(optimized_chunks)
       IN IF chunk.token_count < chunk_size \div 2 /\ n > 0
          THEN MergeLoopWithoutCeiling(
                 [optimized_chunks EXCEPT
                    ![n].content = @ \o chunk.content,
                    ![n].token_count = @ + chunk.token_count,
                    ![n].sentence_count = @ + chunk.sentence_count],
                 chunks_in, i + 1)
          ELSE MergeLoopWithoutCeiling(Append(optimized_chunks, chunk), chunks_in, i + 1)

optimize_chunks_without_ceiling(chunks_in) == MergeLoopWithoutCeiling(<<>>, chunks_in, 1)

RECURSIVE OptimizeLoop(_, _, _)
OptimizeLoop(optimized_chunks, chunks_in, i) ==
  IF i > Len(chunks_in)
  THEN optimized_chunks
  ELSE LET chunk == chunks_in[i]
           n == Len(optimized_chunks)
       IN IF /\ chunk.token_count < chunk_size \div 2
             /\ n > 0
             /\ optimized_chunks[n].token_count + chunk.token_count <= max_chunk_size
          THEN OptimizeLoop(
                 [optimized_chunks EXCEPT
                    ![n].content = @ \o chunk.content,
                    ![n].token_count = @ + chunk.token_count,
                    ![n].sentence_count = @ + chunk.sentence_count],
                 chunks_in, i + 1)
          ELSE OptimizeLoop(Append(optimized_chunks, chunk), chunks_in, i + 1)

optimize_chunks(chunks_in) == OptimizeLoop(<<>>, chunks_in, 1)

\* chunk_text without the check of text.strip() and without the removal of
\* empty pieces in _split_into_sentences: the single empty piece the split of
\* a blank text yields is grouped as a sentence of no tokens
chunk_text_keeping_empty_piece(token_counts, document_id) ==
  optimize_chunks(
    create_chunks_from_sentences(
      Sentences(IF token_counts = <<>> THEN <<0>> ELSE token_counts), document_id))

\* a text without sentences is the empty or whitespace-only text (text.strip()
\* is empty) or a text whose pieces are all too short to be kept
chunk_text(token_counts, document_id) ==
  IF token_counts = <<>>
  THEN <<>>
  ELSE optimize_chunks(create_chunks_from_sentences(Sentences(token_counts), document_id))

(***************************************************************************)
(* Stored files (MinIO), upload sessions, documents, chunks                *)
(***************************************************************************)
None == "None"
NoDocument == 0

UploadStatus == {"init", "uploading", "pending", "processing", "completed", "failed"}
DocumentStatus == {"processing", "completed", "failed"}

SpreadsheetTypes == {"application/vnd.openxmlformats-officedocument.spreadsheetml.sheet",
                     "text/csv"}

\* what a stored object parses to: the sentences of its text (as token counts)
\* or, for a spreadsheet, the number of row-group segments
Files ==
  {[content_type |-> "application/pdf", text |-> <<500, 100, 500>>, segments |-> 0],
   [content_type |-> "application/pdf", text |-> <<>>, segments |-> 0],
   [content_type |-> "text/csv", text |-> <<>>, segments |-> 2]}

NoFile == [content_type |-> None, text |-> <<>>, segments |-> 0]

\* methods the service classes define
UploadSessionServiceMethods ==
  {"create_upload_session", "get_upload_session", "get_upload_sessions",
   "update_upload_status", "update_upload_progress", "complete_upload",
   "fail_upload", "delete_upload_session"}

DocumentServiceMethods ==
  {"create_document", "get_document", "get_documents", "update_document_status",
   "update_document_metadata", "delete_document", "get_document_chunks",
   "create_document_chunk"}

\* positional parameters of UploadSessionService.fail_upload (after self)
fail_upload_params == <<"upload_id", "error_message">>

\* mapped attributes of DocumentChunk: the keyword arguments its constructor takes
DocumentChunkColumns ==
  {"id", "document_id", "chunk_index", "content", "embedding", "chunk_metadata",
   "created_at", "document"}

\* parameters of SSEService.broadcast_upload_status_change (after self)
broadcast_upload_status_change_params == <<"upload_id", "status">>

create_upload_session == [status |-> "init", document_id |-> NoDocument, error_message |-> None]

update_upload_status(S, upload_id, status, document_id, error_message) ==
  IF upload_id \notin DOMAIN S
  THEN S
  ELSE [S EXCEPT ![upload_id] =
          [status |-> status,
           document_id |-> IF document_id # NoDocument THEN document_id ELSE @.document_id,
           error_message |-> IF error_message # None THEN error_message ELSE @.error_message]]

update_upload_progress(S, upload_id) ==
  IF upload_id \notin DOMAIN S
  THEN S
  ELSE [S EXCEPT ![upload_id].status = "uploading"]

complete_upload(S, upload_id, document_id) ==
  update_upload_status(S, upload_id, "pending", document_id, None)

fail_upload(S, upload_id, error_message) ==
  update_upload_status(S, upload_id, "failed", NoDocument, error_message)

\* the row a new Document gets; upload is the upload id inside its file_path
create_document(upload_id) == [status |-> "processing", upload |-> upload_id]

update_document_status(D, document_id, status) ==
  IF document_id \notin DOMAIN D
  THEN D
  ELSE [D EXCEPT ![document_id].status = status]

DocumentsOfUpload(D, upload_id) == {d \in DOMAIN D : D[d].upload = upload_id}

(***************************************************************************)
(* Failure classification and failure handling of the pipeline             *)
(***************************************************************************)
\* messages of the exceptions a pipeline step can raise
\* (the Korean text of the ValueError is given in English)
DownloadFailedMessage == "file download failed: uploads/..."
InvalidKeywordMessage == "'chunk_type' is an invalid keyword argument for DocumentChunk"
BroadcastFailedMessage == "status broadcast failed"
ErrorMessages ==
  {DownloadFailedMessage, InvalidKeywordMessage, BroadcastFailedMessage,
   "connection timeout", "internal error"}

\* the messages that contain one of the upload-failure keywords
UploadKeywordMessages == {"connection timeout"}

determine_failure_type(error) ==
  IF error \in UploadKeywordMessages THEN "upload_failed" ELSE "processing_failed"

\* returns the sessions and documents the handler leaves behind
handle_processing_failure(S, D, upload_id, error_message, failure_type) ==
  LET args == <<upload_id, error_message, failure_type>>
  IN IF Len(args) > Len(fail_upload_params)
     THEN \* TypeError of the call, logged by the handler's own except
          [sessions |-> S, documents |-> D]
     ELSE LET S1 == fail_upload(S, upload_id, error_message)
          IN IF /\ upload_id \in DOMAIN S1
                /\ S1[upload_id].document_id # NoDocument
                /\ "fail_document" \in DocumentServiceMethods
             THEN [sessions |-> S1,
                   documents |-> update_document_status(D, S1[upload_id].document_id, "failed")]
             ELSE [sessions |-> S1, documents |-> D]

\* DocumentProcessingService._update_upload_status(upload_id, "processing", message)
pipeline_update_upload_status(S, upload_id, status) ==
  IF upload_id \notin DOMAIN S
  THEN S
  ELSE [S EXCEPT ![upload_id].status = status, ![upload_id].error_message = "progress"]

(***************************************************************************)
(* Pipeline runs                                                           *)
(***************************************************************************)
EndedPc == {"done", "failed"}
ActivePc == {"started", "downloaded", "extracted", "documented", "chunked", "embedded"}

NewRun(upload_id) ==
  [upload |-> upload_id, pc |-> "queued", document |-> NoDocument, chunks |-> <<>>,
   file_path |-> FALSE, failure_type |-> None, error |-> None, after |-> {}]

RunIds == 1..Len(runs)
ActiveRuns(upload_id) == {r \in RunIds : runs[r].upload = upload_id /\ runs[r].pc \in ActivePc}

create_chunks_from_excel_data(segments, document_id) ==
  [i \in 1..segments |->
     [document_id |-> document_id, chunk_index |-> i - 1, content |-> <<i>>,
      chunk_type |-> "excel_sheet"]]

\* keyword arguments of the DocumentChunk(...) call of the persist step
DocumentChunkKwargs ==
  {"document_id", "chunk_index", "content", "embedding", "chunk_type", "chunk_metadata"}

ChunkTypeOf(chunk) == IF "chunk_type" \in DOMAIN chunk THEN chunk.chunk_type ELSE "text"

document_chunk(chunk) ==
  [document_id |-> chunk.document_id, chunk_index |-> chunk.chunk_index,
   content |-> chunk.content, chunk_type |-> ChunkTypeOf(chunk)]

\* the exception path of process_document_pipeline: classify, handle, re-raise
RunRaises(r, error) ==
  LET u == runs[r].upload
      ft == determine_failure_type(error)
      h == handle_processing_failure(sessions, documents, u, error, ft)
  IN /\ sessions' = h.sessions
     /\ documents' = h.documents
     /\ runs' = [runs EXCEPT ![r].pc = "failed", ![r].failure_type = ft, ![r].error = error]
     /\ UNCHANGED <<next_document_id, chunks, storage, celery_queue, chunker_vars, search_vars, embed_vars, status_response>>

PipelineBegin(r) ==
  /\ r \in RunIds
  /\ runs[r].pc = "queued"
  /\ LET u == runs[r].upload
     IN IF u \notin DOMAIN sessions
        THEN RunRaises(r, "internal error")
        ELSE /\ sessions' = pipeline_update_upload_status(sessions, u, "processing")
             /\ runs' = [runs EXCEPT ![r].pc = "started",
                                     ![r].after = {q \in RunIds : runs[q].pc \in EndedPc}]
             /\ UNCHANGED <<documents, next_document_id, chunks, storage, celery_queue,
                            chunker_vars, search_vars, embed_vars, status_response>>

DownloadFile(r) ==
  /\ r \in RunIds
  /\ runs[r].pc = "started"
  /\ LET u == runs[r].upload
     IN IF storage[u] = NoFile
        THEN RunRaises(r, DownloadFailedMessage)
        ELSE /\ sessions' = pipeline_update_upload_status(sessions, u, "processing")
             /\ runs' = [runs EXCEPT ![r].pc = "downloaded", ![r].file_path = TRUE]
             /\ UNCHANGED <<documents, next_document_id, chunks, storage, celery_queue,
                            chunker_vars, search_vars, embed_vars, status_response>>

ExtractText(r) ==
  /\ r \in RunIds
  /\ runs[r].pc = "downloaded"
  /\ sessions' = pipeline_update_upload_status(sessions, runs[r].upload, "processing")
  /\ runs' = [runs EXCEPT ![r].pc = "extracted"]
  /\ UNCHANGED <<documents, next_document_id, chunks, storage, celery_queue, chunker_vars, search_vars, embed_vars, status_response>>

GetOrCreateDocumentRecord(r) ==
  /\ r \in RunIds
  /\ runs[r].pc = "extracted"
  /\ LET u == runs[r].upload
     IN /\ u \in DOMAIN sessions
        /\ IF sessions[u].document_id # NoDocument /\ sessions[u].document_id \in DOMAIN documents
           THEN /\ runs' = [runs EXCEPT ![r].pc = "documented",
                                        ![r].document = sessions[u].document_id]
                /\ UNCHANGED <<documents, next_document_id>>
           ELSE /\ next_document_id <= MaxDocuments
                /\ documents' = documents @@ (next_document_id :> create_document(u))
                /\ next_document_id' = next_document_id + 1
                /\ runs' = [runs EXCEPT ![r].pc = "documented",
                                        ![r].document = next_document_id]
        /\ sessions' = pipeline_update_upload_status(sessions, u, "processing")
  /\ UNCHANGED <<chunks, storage, celery_queue, chunker_vars, search_vars, embed_vars, status_response>>

ChunkStep(r) ==
  /\ r \in RunIds
  /\ runs[r].pc = "documented"
  /\ LET u == runs[r].upload
         f == storage[u]
     IN /\ runs' = [runs EXCEPT
                      ![r].pc = "chunked",
                      ![r].chunks = IF f.content_type \in SpreadsheetTypes
                                    THEN create_chunks_from_excel_data(f.segments, runs[r].document)
                                    ELSE chunk_text(f.text, runs[r].document)]
        /\ sessions' = pipeline_update_upload_status(sessions, u, "processing")
  /\ UNCHANGED <<documents, next_document_id, chunks, storage, celery_queue, chunker_vars, search_vars, embed_vars, status_response>>

GenerateAndStoreEmbeddings(r) ==
  /\ r \in RunIds
  /\ runs[r].pc = "chunked"
  /\ IF runs[r].chunks # <<>> /\ ~(DocumentChunkKwargs \subseteq DocumentChunkColumns)
     THEN RunRaises(r, InvalidKeywordMessage)
     ELSE /\ chunks' = chunks \o [i \in 1..Len(runs[r].chunks) |-> document_chunk(runs[r].chunks[i])]
          /\ sessions' = pipeline_update_upload_status(sessions, runs[r].upload, "processing")
          /\ runs' = [runs EXCEPT ![r].pc = "embedded"]
          /\ UNCHANGED <<documents, next_document_id, storage, celery_queue, chunker_vars, search_vars, embed_vars, status_response>>

\* sink_raises: the broadcast of the 'completed' status change raises; the
\* except of _complete_upload_session re-raises it into the pipeline's except
CompleteUploadSession(r, sink_raises) ==
  /\ r \in RunIds
  /\ runs[r].pc = "embedded"
  /\ LET u == runs[r].upload
         d == runs[r].document
         D1 == update_document_status(documents, d, "completed")
         S1 == IF u \in DOMAIN sessions
               THEN [sessions EXCEPT ![u] = [status |-> "completed",
                                            document_id |-> d,
                                            error_message |-> None]]
               ELSE sessions
     IN IF sink_raises /\ u \in DOMAIN sessions
        THEN LET ft == determine_failure_type(BroadcastFailedMessage)
                 h == handle_processing_failure(S1, D1, u, BroadcastFailedMessage, ft)
             IN /\ sessions' = h.sessions
                /\ documents' = h.documents
                /\ runs' = [runs EXCEPT ![r].pc = "failed", ![r].failure_type = ft,
                                        ![r].error = BroadcastFailedMessage]
        ELSE /\ documents' = D1
             /\ sessions' = S1
             /\ runs' = [runs EXCEPT ![r].pc = "done", ![r].file_path = FALSE]
  /\ UNCHANGED <<next_document_id, chunks, storage, celery_queue, chunker_vars, search_vars, embed_vars, status_response>>

\* an exception of a collaborator (store, parser, tokenizer, embedding backend,
\* database) at the step the run is in
PipelineStepFails(r, error) ==
  /\ r \in RunIds
  /\ runs[r].pc \in ActivePc
  /\ RunRaises(r, error)

(***************************************************************************)
(* Routers and tasks                                                       *)
(***************************************************************************)
allowed_mimes ==
  {"application/pdf",
   "application/vnd.openxmlformats-officedocument.wordprocessingml.document",
   "application/vnd.openxmlformats-officedocument.spreadsheetml.sheet",
   "text/csv", "image/png", "image/jpeg"}

\* POST /documents/upload
InitDocumentUpload(u) ==
  /\ u \notin DOMAIN sessions
  /\ sessions' = sessions @@ (u :> create_upload_session)
  /\ UNCHANGED <<documents, next_document_id, chunks, storage, runs, celery_queue,
                 chunker_vars, search_vars, embed_vars, status_response>>

\* the client's PUT of the bytes to the presigned URL of the upload
PutObject(u, f) ==
  /\ u \in DOMAIN sessions
  /\ storage[u] = NoFile
  /\ storage' = [storage EXCEPT ![u] = f]
  /\ UNCHANGED <<sessions, documents, next_document_id, chunks, runs, celery_queue,
                 chunker_vars, search_vars, embed_vars, status_response>>

\* PUT /documents/upload/{upload_id}
CommitDocumentUpload(u) ==
  /\ IF u \notin DOMAIN sessions
     THEN UNCHANGED <<sessions, documents, next_document_id>>
     ELSE IF storage[u] = NoFile
          THEN /\ sessions' = fail_upload(sessions, u, "Uploaded file not found")
               /\ UNCHANGED <<documents, next_document_id>>
          ELSE /\ next_document_id <= MaxDocuments
               /\ documents' = documents @@ (next_document_id :> create_document(u))
               /\ next_document_id' = next_document_id + 1
               /\ sessions' = complete_upload(sessions, u, next_document_id)
  /\ UNCHANGED <<chunks, storage, runs, celery_queue, chunker_vars, search_vars, embed_vars, status_response>>

\* POST /documents/upload-direct
UploadFileDirect(u, f) ==
  /\ u \notin DOMAIN sessions
  /\ f.content_type \in allowed_mimes
  /\ next_document_id <= MaxDocuments
  /\ celery_queue[u] < MaxTasks
  /\ storage' = [storage EXCEPT ![u] = f]
  /\ documents' = documents @@ (next_document_id :> create_document(u))
  /\ next_document_id' = next_document_id + 1
  /\ sessions' = complete_upload(sessions @@ (u :> create_upload_session), u, next_document_id)
  /\ celery_queue' = [celery_queue EXCEPT ![u] = @ + 1]
  /\ UNCHANGED <<chunks, runs, chunker_vars, search_vars, embed_vars, status_response>>

\* POST /documents/processing/start/{upload_id}
StartDocumentProcessing(u) ==
  /\ IF u \in DOMAIN sessions /\ sessions[u].status \in {"pending", "init"}
     THEN /\ Len(runs) < MaxRuns
          /\ runs' = Append(runs, NewRun(u))
     ELSE UNCHANGED runs
  /\ UNCHANGED <<sessions, documents, next_document_id, chunks, storage, celery_queue,
                 chunker_vars, search_vars, embed_vars, status_response>>

\* POST /documents/processing/retry/{upload_id}
RetryDocumentProcessing(u) ==
  /\ IF /\ u \in DOMAIN sessions
        /\ sessions[u].status = "failed"
        /\ "update_upload_session_status" \in UploadSessionServiceMethods
     THEN /\ Len(runs) < MaxRuns
          /\ sessions' = [sessions EXCEPT ![u].status = "pending", ![u].error_message = None]
          /\ runs' = Append(runs, NewRun(u))
     ELSE \* 404, 400, or the AttributeError of the missing method (500)
          UNCHANGED <<sessions, runs>>
  /\ UNCHANGED <<documents, next_document_id, chunks, storage, celery_queue, chunker_vars, search_vars, embed_vars, status_response>>

\* POST /documents/{document_id}/retry
RetryDocument(d) ==
  /\ IF d \in DOMAIN documents /\ documents[d].status = "failed"
     THEN /\ documents' = update_document_status(documents, d, "processing")
          /\ IF "get_upload_sessions_by_document_id" \in UploadSessionServiceMethods
             THEN \E u \in UploadIds :
                    /\ u \in DOMAIN sessions /\ sessions[u].document_id = d
                    /\ celery_queue[u] < MaxTasks
                    /\ celery_queue' = [celery_queue EXCEPT ![u] = @ + 1]
             ELSE UNCHANGED celery_queue
     ELSE UNCHANGED <<documents, celery_queue>>
  /\ UNCHANGED <<sessions, next_document_id, chunks, storage, runs, chunker_vars, search_vars, embed_vars, status_response>>

\* POST /documents/{document_id}/reprocess
ReprocessDocument(d) ==
  /\ documents' = update_document_status(documents, d, "processing")
  /\ UNCHANGED <<sessions, next_document_id, chunks, storage, runs, celery_queue,
                 chunker_vars, search_vars, embed_vars, status_response>>

\* PUT /uploads/sessions/{upload_id}/status
UpdateUploadStatusApi(u, status, document_id, error_message) ==
  /\ sessions' = update_upload_status(sessions, u, status, document_id, error_message)
  /\ UNCHANGED <<documents, next_document_id, chunks, storage, runs, celery_queue,
                 chunker_vars, search_vars, embed_vars, status_response>>

\* UploadSessionService.update_upload_progress
UpdateUploadProgress(u) ==
  /\ sessions' = update_upload_progress(sessions, u)
  /\ UNCHANGED <<documents, next_document_id, chunks, storage, runs, celery_queue,
                 chunker_vars, search_vars, embed_vars, status_response>>

\* Celery task retry_document_processing
RetryDocumentProcessingTask(u) ==
  /\ celery_queue[u] < MaxTasks
  /\ celery_queue' = [celery_queue EXCEPT ![u] = @ + 1]
  /\ UNCHANGED <<sessions, documents, next_document_id, chunks, storage, runs, chunker_vars, search_vars, embed_vars, status_response>>

\* arguments of the broadcast_upload_status_change call of the Celery task
task_broadcast_args == <<"upload_id", "status", "0", "0", "message">>

\* Celery task process_document_pipeline, run by a worker
ProcessDocumentPipelineTask(u) ==
  /\ celery_queue[u] > 0
  /\ celery_queue' = [celery_queue EXCEPT ![u] = @ - 1]
  /\ IF Len(task_broadcast_args) > Len(broadcast_upload_status_change_params)
     THEN \* TypeError before the pipeline is entered; the task ends in FAILURE
          UNCHANGED runs
     ELSE /\ Len(runs) < MaxRuns
          /\ runs' = Append(runs, NewRun(u))
  /\ UNCHANGED <<sessions, documents, next_document_id, chunks, storage, chunker_vars, search_vars, embed_vars, status_response>>

(***************************************************************************)
(* The ingestion specification                                             *)
(***************************************************************************)
EmptyTable == [x \in {} |-> None]

\* no search has been asked for
NoSearchRows == [bm25 |-> <<>>, dense |-> <<>>, alpha |-> 0, beta |-> 0]
NoSearchResult == [raised |-> FALSE, results |-> <<>>]

\* no batch of texts has been handed to the embedder
NoEmbedCall == [texts |-> <<>>, provider |-> None, fail_at |-> 0]
NoEmbedResult == [raised |-> FALSE, embeddings |-> <<>>, calls |-> 0]

EmbedIdle ==
  /\ embed_call = NoEmbedCall
  /\ embed_result = NoEmbedResult
  /\ embed_pc = "idle"

\* no status request has been answered
NoResponse == [upload_id |-> None, status_code |-> 0, body |-> None]

IngestInit ==
  /\ sessions = EmptyTable
  /\ documents = EmptyTable
  /\ next_document_id = 1
  /\ chunks = <<>>
  /\ storage = [u \in UploadIds |-> NoFile]
  /\ runs = <<>>
  /\ celery_queue = [u \in UploadIds |-> 0]

Init ==
  /\ IngestInit
  /\ chunker_text = <<>>
  /\ chunker_result = <<>>
  /\ chunker_pc = "idle"
  /\ search_rows = NoSearchRows
  /\ search_result = NoSearchResult
  /\ search_pc = "idle"
  /\ EmbedIdle
  /\ status_response = NoResponse

Next ==
  \/ \E u \in UploadIds : InitDocumentUpload(u)
  \/ \E u \in UploadIds, f \in Files : PutObject(u, f)
  \/ \E u \in UploadIds : CommitDocumentUpload(u)
  \/ \E u \in UploadIds, f \in Files : UploadFileDirect(u, f)
  \/ \E u \in UploadIds : StartDocumentProcessing(u)
  \/ \E u \in UploadIds : RetryDocumentProcessing(u)
  \/ \E d \in DocumentIds : RetryDocument(d)
  \/ \E d \in DocumentIds : ReprocessDocument(d)
  \/ \E u \in UploadIds, st \in UploadStatus, d \in {NoDocument} \cup DocumentIds :
        UpdateUploadStatusApi(u, st, d, None)
  \/ \E u \in UploadIds : UpdateUploadProgress(u)
  \/ \E u \in UploadIds : RetryDocumentProcessingTask(u)
  \/ \E u \in UploadIds : ProcessDocumentPipelineTask(u)
  \/ \E r \in 1..MaxRuns : PipelineBegin(r)
  \/ \E r \in 1..MaxRuns : DownloadFile(r)
  \/ \E r \in 1..MaxRuns : ExtractText(r)
  \/ \E r \in 1..MaxRuns : GetOrCreateDocumentRecord(r)
  \/ \E r \in 1..MaxRuns : ChunkStep(r)
  \/ \E r \in 1..MaxRuns : GenerateAndStoreEmbeddings(r)
  \/ \E r \in 1..MaxRuns, sink_raises \in BOOLEAN : CompleteUploadSession(r, sink_raises)
  \/ \E r \in 1..MaxRuns, e \in {"connection timeout", "internal error"} : PipelineStepFails(r, e)

Spec == Init /\ [][Next]_vars

(***************************************************************************)
(* chunk_text on bounded inputs                                            *)
(***************************************************************************)
RECURSIVE SeqsUpTo(_, _)
SeqsUpTo(S, n) ==
  IF n = 0
  THEN {<<>>}
  ELSE LET shorter == SeqsUpTo(S, n - 1)
       IN shorter \cup {Append(q, x) : q \in shorter, x \in S}

ChunkerInit ==
  /\ IngestInit
  /\ chunker_text \in SeqsUpTo(TokenCounts, MaxSentences)
  /\ chunker_result = <<>>
  /\ chunker_pc = "ready"
  /\ search_rows = NoSearchRows
  /\ search_result = NoSearchResult
  /\ search_pc = "idle"
  /\ EmbedIdle
  /\ status_response = NoResponse

ChunkTextCall ==
  /\ chunker_pc = "ready"
  /\ chunker_result' = chunk_text(chunker_text, 1)
  /\ chunker_pc' = "done"
  /\ UNCHANGED <<chunker_text, ingest_vars, search_vars, embed_vars, status_response>>

\* _create_chunks_from_sentences on the sentences of the text (step 2 of
\* chunk_text)
CreateChunksFromSentencesCall ==
  /\ chunker_pc = "ready"
  /\ chunker_result' = create_chunks_from_sentences(Sentences(chunker_text), 1)
  /\ chunker_pc' = "grouped"
  /\ UNCHANGED <<chunker_text, ingest_vars, search_vars, embed_vars, status_response>>

\* _optimize_chunks on the grouped chunks (step 3 of chunk_text)
OptimizeChunksCall ==
  /\ chunker_pc = "grouped"
  /\ chunker_result' = optimize_chunks(chunker_result)
  /\ chunker_pc' = "optimized"
  /\ UNCHANGED <<chunker_text, ingest_vars, search_vars, embed_vars, status_response>>

ChunkerNext ==
  \/ ChunkTextCall
  \/ CreateChunksFromSentencesCall
  \/ OptimizeChunksCall

SpecChunker == ChunkerInit /\ [][ChunkerNext]_vars

(***************************************************************************)
(* SearchService: keyword search, vector search, fusion                    *)
(***************************************************************************)
ChunkIds == 1..MaxChunks

\* scores and weights are held in tenths: 1.0 is ScoreUnit
ScoreUnit == 10

\* how a chunk row satisfies the WHERE clause of the keyword query
MatchKinds == {"ilike", "tsquery"}

\* the CASE expression of the keyword query
bm25_score(match) ==
  CASE match = "ilike" -> 10
    [] match = "tsquery" -> 8
    [] OTHER -> 5

\* values of 1 - cosine distance of the rows of the vector query
DenseScores == {2, 9}

\* (alpha, beta) of a request; the defaults are 0.7 and 0.3
Weights == {<<7, 3>>, <<0, 10>>, <<10, 0>>, <<5, 5>>}

\* SearchService.__init__: self.embedding_service = None
embedding_service == None

DistinctIds(rows) == \A i \in 1..Len(rows), j \in 1..Len(rows) : i # j => rows[i].id # rows[j].id

\* row lists the keyword query can return: ORDER BY bm25_score DESC, rows of
\* equal score in whatever order the database yields them
Bm25RowLists ==
  {rows \in UNION {[1..n -> [id : ChunkIds, match : MatchKinds]] : n \in 0..MaxChunks} :
     /\ DistinctIds(rows)
     /\ \A i \in 1..Len(rows) - 1 : bm25_score(rows[i].match) >= bm25_score(rows[i + 1].match)}

\* row lists the vector query can return: ORDER BY distance ascending
DenseRowLists ==
  {rows \in UNION {[1..n -> [id : ChunkIds, dense_score : DenseScores]] : n \in 0..MaxChunks} :
     /\ DistinctIds(rows)
     /\ \A i \in 1..Len(rows) - 1 : rows[i].dense_score >= rows[i + 1].dense_score}

Zero == [num |-> 0, den |-> 1]

\* the dicts _bm25_search builds from its rows
bm25_rows_to_results(rows) ==
  [i \in 1..Len(rows) |->
     [id |-> rows[i].id, bm25_score |-> bm25_score(rows[i].match), dense_score |-> 0,
      normalized_bm25 |-> Zero, normalized_dense |-> Zero, combined_score |-> Zero]]

\* the dicts _dense_search builds from its rows
dense_rows_to_results(rows) ==
  [i \in 1..Len(rows) |->
     [id |-> rows[i].id, bm25_score |-> 0, dense_score |-> rows[i].dense_score,
      normalized_bm25 |-> Zero, normalized_dense |-> Zero, combined_score |-> Zero]]

FirstRows(rows, limit) == SubSeq(rows, 1, IF Len(rows) < limit THEN Len(rows) ELSE limit)

\* fails: the statement raises (store unreachable); the except returns []
bm25_search(rows, limit, fails) ==
  IF fails THEN <<>> ELSE bm25_rows_to_results(FirstRows(rows, limit))

\* _dense_search without its check of the embedding backend: the vector
\* query is run although no embedding service is set
dense_search_without_backend_check(rows, limit, fails) ==
  IF fails THEN <<>> ELSE dense_rows_to_results(FirstRows(rows, limit))

dense_search(rows, limit, fails) ==
  IF embedding_service = None
  THEN <<>>
  ELSE IF fails THEN <<>> ELSE dense_rows_to_results(FirstRows(rows, limit))

SetMin(S) == CHOOSE x \in S : \A y \in S : x <= y
SetMax(S) == CHOOSE x \in S : \A y \in S : x >= y

\* a >= b for fractions with positive denominators
FracGeq(a, b) == a.num * b.den >= b.num * a.den
FracEq(a, b) == a.num * b.den = b.num * a.den

\* the sort of _combine_results without reverse=True: x goes behind the
\* entries whose score is <= its own
InsertByScoreAscending(sorted, x) ==
  LET k == Cardinality({i \in 1..Len(sorted) : FracGeq(x.combined_score, sorted[i].combined_score)})
  IN SubSeq(sorted, 1, k) \o <<x>> \o SubSeq(sorted, k + 1, Len(sorted))

\* sorted(..., key=combined_score, reverse=True) is stable: x goes behind the
\* entries whose score is >= its own
InsertByScore(sorted, x) ==
  LET k == Cardinality({i \in 1..Len(sorted) : FracGeq(sorted[i].combined_score, x.combined_score)})
  IN SubSeq(sorted, 1, k) \o <<x>> \o SubSeq(sorted, k + 1, Len(sorted))

RECURSIVE SortByScore(_, _)
SortByScore(entries, n) ==
  IF n = 0 THEN <<>> ELSE InsertByScore(SortByScore(entries, n - 1), entries[n])

combine_results(bm25_results, dense_results, alpha, beta) ==
  LET InBm25(id) == \E i \in 1..Len(bm25_results) : bm25_results[i].id = id
      DenseOf(r) ==
        IF \E j \in 1..Len(dense_results) : dense_results[j].id = r.id
        THEN dense_results[CHOOSE j \in 1..Len(dense_results) : dense_results[j].id = r.id].dense_score
        ELSE r.dense_score
      \* combined_dict.values() in insertion order
      combined_dict ==
        [i \in 1..Len(bm25_results) |-> [bm25_results[i] EXCEPT !.dense_score = DenseOf(bm25_results[i])]]
          \o SelectSeq(dense_results, LAMBDA r : ~InBm25(r.id))
      bm25_scores == {combined_dict[i].bm25_score : i \in 1..Len(combined_dict)} \ (-ScoreUnit..0)
      dense_scores == {combined_dict[i].dense_score : i \in 1..Len(combined_dict)} \ (-ScoreUnit..0)
      bm25_min == IF bm25_scores = {} THEN 0 ELSE SetMin(bm25_scores)
      bm25_max == IF bm25_scores = {} THEN ScoreUnit ELSE SetMax(bm25_scores)
      dense_min == IF dense_scores = {} THEN 0 ELSE SetMin(dense_scores)
      dense_max == IF dense_scores = {} THEN ScoreUnit ELSE SetMax(dense_scores)
      normalized_bm25(r) ==
        IF bm25_max > bm25_min
        THEN [num |-> r.bm25_score - bm25_min, den |-> bm25_max - bm25_min]
        ELSE [num |-> r.bm25_score, den |-> ScoreUnit]
      normalized_dense(r) ==
        IF dense_max > dense_min
        THEN [num |-> r.dense_score - dense_min, den |-> dense_max - dense_min]
        ELSE [num |-> r.dense_score, den |-> ScoreUnit]
      Scored(r) ==
        LET nb == normalized_bm25(r)
            nd == normalized_dense(r)
        IN [r EXCEPT !.normalized_bm25 = nb,
                     !.normalized_dense = nd,
                     !.combined_score =
                        [num |-> alpha * nd.num * nb.den + beta * nb.num * nd.den,
                         den |-> ScoreUnit * nd.den * nb.den]]
      scored == [i \in 1..Len(combined_dict) |-> Scored(combined_dict[i])]
  IN SortByScore(scored, Len(scored))

\* the sub-searches swallow their exceptions, _combine_results raises nothing
\* on these rows: the except of hybrid_search is never entered
hybrid_search(rows, limit, bm25_fails, dense_fails) ==
  LET bm25_results == bm25_search(rows.bm25, limit * 2, bm25_fails)
      dense_results == dense_search(rows.dense, limit * 2, dense_fails)
      combined_results == combine_results(bm25_results, dense_results, rows.alpha, rows.beta)
  IN [raised |-> FALSE, results |-> FirstRows(combined_results, limit)]

SearchInit ==
  /\ IngestInit
  /\ chunker_text = <<>>
  /\ chunker_result = <<>>
  /\ chunker_pc = "idle"
  /\ search_rows \in {[bm25 |-> b, dense |-> d, alpha |-> w[1], beta |-> w[2]] :
                        b \in Bm25RowLists, d \in DenseRowLists, w \in Weights}
  /\ search_result = NoSearchResult
  /\ search_pc = "ready"
  /\ EmbedIdle
  /\ status_response = NoResponse

\* _combine_results on the result lists of the two sub-searches
CombineResultsCall ==
  /\ search_pc = "ready"
  /\ search_result' =
       [raised |-> FALSE,
        results |-> combine_results(bm25_rows_to_results(search_rows.bm25),
                                    dense_rows_to_results(search_rows.dense),
                                    search_rows.alpha, search_rows.beta)]
  /\ search_pc' = "combined"
  /\ UNCHANGED <<search_rows, ingest_vars, chunker_vars, embed_vars, status_response>>

HybridSearchCall(limit, bm25_fails, dense_fails) ==
  /\ search_pc = "ready"
  /\ search_result' =
       hybrid_search(search_rows, limit, bm25_fails, dense_fails)
         @@ [limit |-> limit, bm25_fails |-> bm25_fails, dense_fails |-> dense_fails]
  /\ search_pc' = "searched"
  /\ UNCHANGED <<search_rows, ingest_vars, chunker_vars, embed_vars, status_response>>

SearchNext ==
  \/ CombineResultsCall
  \/ \E limit \in 1..MaxLimit, bm25_fails \in BOOLEAN, dense_fails \in BOOLEAN :
       HybridSearchCall(limit, bm25_fails, dense_fails)

SpecSearch == SearchInit /\ [][SearchNext]_vars

(***************************************************************************)
(* EmbeddingService: batch embedding                                       *)
(***************************************************************************)
\* batch_size of _generate_openai_embeddings_batch
openai_batch_size == 100

Providers == {"openai", "sentence_transformers"}

\* the vector the provider computes for a text
embedding_of(text) == [of |-> text]

\* one provider call on a list of texts: one vector per text, in the order of
\* the input (response.data of embeddings.create, rows of model.encode)
provider_embeddings(batch_texts) ==
  [k \in 1..Len(batch_texts) |-> embedding_of(batch_texts[k])]

\* the slice texts[i + 1:i + batch_size]: the first text of the sub-batch is
\* left out
batch_slice_skipping_first(texts, i) ==
  SubSeq(texts, i + 2,
         IF i + openai_batch_size < Len(texts) THEN i + openai_batch_size ELSE Len(texts))

\* texts[i:i + batch_size] of a 0-based offset i
batch_slice(texts, i) ==
  SubSeq(texts, i + 1,
         IF i + openai_batch_size < Len(texts) THEN i + openai_batch_size ELSE Len(texts))

\* for i in range(0, len(texts), batch_size); calls counts the calls of
\* embeddings.create, the call number fail_at raises
RECURSIVE openai_batch_loop(_, _, _, _, _)
openai_batch_loop(texts, i, all_embeddings, calls, fail_at) ==
  IF i >= Len(texts)
  THEN [raised |-> FALSE, embeddings |-> all_embeddings, calls |-> calls]
  ELSE IF calls + 1 = fail_at
       THEN \* the except logs and re-raises
            [raised |-> TRUE, embeddings |-> <<>>, calls |-> calls + 1]
       ELSE openai_batch_loop(texts, i + openai_batch_size,
                              all_embeddings \o provider_embeddings(batch_slice(texts, i)),
                              calls + 1, fail_at)

generate_openai_embeddings_batch(texts, fail_at) ==
  openai_batch_loop(texts, 0, <<>>, 0, fail_at)

\* one call of model.encode on the whole list
generate_sentence_transformer_embeddings_batch(texts, fail_at) ==
  IF fail_at = 1
  THEN [raised |-> TRUE, embeddings |-> <<>>, calls |-> 1]
  ELSE [raised |-> FALSE, embeddings |-> provider_embeddings(texts), calls |-> 1]

generate_embeddings_batch(texts, provider, fail_at) ==
  IF texts = <<>>
  THEN [raised |-> FALSE, embeddings |-> <<>>, calls |-> 0]
  ELSE IF provider = "openai"
       THEN generate_openai_embeddings_batch(texts, fail_at)
       ELSE generate_sentence_transformer_embeddings_batch(texts, fail_at)

\* the batches: n texts, text k being the k-th of the caller's list
EmbedInit ==
  /\ IngestInit
  /\ chunker_text = <<>>
  /\ chunker_result = <<>>
  /\ chunker_pc = "idle"
  /\ search_rows = NoSearchRows
  /\ search_result = NoSearchResult
  /\ search_pc = "idle"
  /\ embed_call \in {[texts |-> [k \in 1..n |-> k], provider |-> p, fail_at |-> f] :
                       n \in 0..MaxTexts, p \in Providers,
                       f \in 0..(MaxTexts \div openai_batch_size + 2)}
  /\ embed_result = NoEmbedResult
  /\ embed_pc = "ready"
  /\ status_response = NoResponse

GenerateEmbeddingsBatchCall ==
  /\ embed_pc = "ready"
  /\ embed_result' = generate_embeddings_batch(embed_call.texts, embed_call.provider,
                                               embed_call.fail_at)
  /\ embed_pc' = "done"
  /\ UNCHANGED <<embed_call, ingest_vars, chunker_vars, search_vars, status_response>>

EmbedNext == GenerateEmbeddingsBatchCall

SpecEmbed == EmbedInit /\ [][EmbedNext]_vars

(***************************************************************************)
(* Processing status of an upload                                          *)
(***************************************************************************)
\* mapped attributes of UploadSession
UploadSessionColumns ==
  {"id", "filename", "file_size", "uploaded_size", "content_type", "status",
   "document_id", "error_message", "created_at", "updated_at"}

\* attributes of the session DocumentProcessingService.get_processing_status reads
ProcessingStatusAttributes ==
  {"id", "status", "document_id", "error_message", "failure_type", "retryable",
   "created_at", "updated_at"}

\* the request for upload ids whose session has every attribute the service
\* reads: the dict of the session's values
processing_status_of_session(S, upload_id) ==
  [raised |-> FALSE,
   value |-> [upload_id |-> upload_id,
              status |-> S[upload_id].status,
              document_id |-> S[upload_id].document_id,
              error_message |-> S[upload_id].error_message]]

\* DocumentProcessingService.get_processing_status
get_processing_status(S, upload_id) ==
  IF upload_id \notin DOMAIN S
  THEN [raised |-> FALSE, value |-> None]
  ELSE IF ~(ProcessingStatusAttributes \subseteq UploadSessionColumns)
       THEN \* AttributeError: 'UploadSession' object has no attribute 'failure_type'
            [raised |-> TRUE, value |-> None]
       ELSE processing_status_of_session(S, upload_id)

\* GET /documents/processing/status/{upload_id}
GetProcessingStatus(u) ==
  /\ LET status_info == get_processing_status(sessions, u)
     IN status_response' =
          IF status_info.raised
          THEN [upload_id |-> u, status_code |-> 500, body |-> None]
          ELSE IF status_info.value = None
               THEN [upload_id |-> u, status_code |-> 404, body |-> None]
               ELSE [upload_id |-> u, status_code |-> 200, body |-> status_info.value]
  /\ UNCHANGED <<ingest_vars, chunker_vars, search_vars, embed_vars>>

StatusNext ==
  \/ \E u \in UploadIds : InitDocumentUpload(u)
  \/ \E u \in UploadIds, f \in Files : PutObject(u, f)
  \/ \E u \in UploadIds : CommitDocumentUpload(u)
  \/ \E u \in UploadIds, st \in UploadStatus, d \in {NoDocument} \cup DocumentIds :
        UpdateUploadStatusApi(u, st, d, None)
  \/ \E u \in UploadIds : GetProcessingStatus(u)

SpecStatus == Init /\ [][StatusNext]_vars

(***************************************************************************)
(* Deletion of documents and upload sessions                               *)
(***************************************************************************)
\* the rows of table T without those whose key is in keys
WithoutRows(T, keys) == [k \in DOMAIN T \ keys |-> T[k]]

\* db.delete(document) that removes the documents row only and leaves the
\* document_chunks rows of the document in place
delete_document_without_cascade(D, C, document_id) ==
  IF document_id \notin DOMAIN D
  THEN [deleted |-> FALSE, documents |-> D, chunks |-> C]
  ELSE [deleted |-> TRUE, documents |-> WithoutRows(D, {document_id}), chunks |-> C]

\* DocumentService.delete_document on the tables documents D and
\* document_chunks C: relationship cascade 'all, delete-orphan'
delete_document(D, C, document_id) ==
  IF document_id \notin DOMAIN D
  THEN [deleted |-> FALSE, documents |-> D, chunks |-> C]
  ELSE [deleted |-> TRUE,
        documents |-> WithoutRows(D, {document_id}),
        chunks |-> SelectSeq(C, LAMBDA c : c.document_id # document_id)]

\* UploadSessionService.delete_upload_session
delete_upload_session(S, upload_id) ==
  IF upload_id \notin DOMAIN S THEN S ELSE WithoutRows(S, {upload_id})

\* DELETE /documents/{document_id}
DeleteDocument(d) ==
  /\ LET res == delete_document(documents, chunks, d)
     IN /\ documents' = res.documents
        /\ chunks' = res.chunks
        /\ storage' = IF res.deleted
                      THEN [storage EXCEPT ![documents[d].upload] = NoFile]
                      ELSE storage
  /\ UNCHANGED <<sessions, next_document_id, runs, celery_queue, chunker_vars,
                 search_vars, embed_vars, status_response>>

\* DELETE /uploads/sessions/{upload_id}
DeleteUploadSession(u) ==
  /\ sessions' = delete_upload_session(sessions, u)
  /\ UNCHANGED <<documents, next_document_id, chunks, storage, runs, celery_queue,
                 chunker_vars, search_vars, embed_vars, status_response>>

\* Celery task cleanup_failed_processing
CleanupFailedProcessingTask(u) ==
  /\ sessions' = IF u \in DOMAIN sessions /\ sessions[u].status = "failed"
                 THEN delete_upload_session(sessions, u)
                 ELSE sessions
  /\ UNCHANGED <<documents, next_document_id, chunks, storage, runs, celery_queue,
                 chunker_vars, search_vars, embed_vars, status_response>>

\* Celery task cleanup_failed_uploads: old is the set of sessions created
\* before the cutoff date
CleanupFailedUploadsTask(old) ==
  /\ sessions' = WithoutRows(sessions, {u \in old \cap DOMAIN sessions :
                                           sessions[u].status = "failed"})
  /\ UNCHANGED <<documents, next_document_id, chunks, storage, runs, celery_queue,
                 chunker_vars, search_vars, embed_vars, status_response>>

\* DocumentService.create_document_chunk; the foreign key of document_id
\* rejects a row for a document that does not exist (IntegrityError)
CreateDocumentChunk(d, chunk_index) ==
  /\ Len(chunks) < MaxStoredChunks
  /\ chunks' = IF d \in DOMAIN documents
               THEN Append(chunks, [document_id |-> d, chunk_index |-> chunk_index,
                                    content |-> <<chunk_index + 1>>])
               ELSE chunks
  /\ UNCHANGED <<sessions, documents, next_document_id, storage, runs, celery_queue,
                 chunker_vars, search_vars, embed_vars, status_response>>

DeleteNext ==
  \/ \E u \in UploadIds : InitDocumentUpload(u)
  \/ \E u \in UploadIds, f \in Files : PutObject(u, f)
  \/ \E u \in UploadIds : CommitDocumentUpload(u)
  \/ \E u \in UploadIds, st \in UploadStatus, d \in {NoDocument} \cup DocumentIds :
        UpdateUploadStatusApi(u, st, d, None)
  \/ \E d \in DocumentIds, i \in 0..(MaxStoredChunks - 1) : CreateDocumentChunk(d, i)
  \/ \E d \in DocumentIds : DeleteDocument(d)
  \/ \E u \in UploadIds : DeleteUploadSession(u)
  \/ \E u \in UploadIds : CleanupFailedProcessingTask(u)
  \/ \E old \in SUBSET UploadIds : CleanupFailedUploadsTask(old)

SpecDelete == Init /\ [][DeleteNext]_vars

(***************************************************************************)
(* Properties                                                              *)
(***************************************************************************)
\* C1: whenever a pipeline run on an existing session ends with an exception,
\* the step that ends it leaves the session 'failed' with the error message
\* (and not 'processing' with a progress message).
C1_FailedRunMarksSessionFailed ==
  [][\A r \in 1..MaxRuns :
       (/\ r \in RunIds
        /\ runs[r].pc # "failed"
        /\ runs'[r].pc = "failed"
        /\ runs[r].upload \in DOMAIN sessions)
       => /\ sessions'[runs[r].upload].status = "failed"
          /\ sessions'[runs[r].upload].error_message \in ErrorMessages]_vars

\* C2: when a run of an upload has failed with processing_failed after it
\* resolved or created its Document, a run of the same upload begun afterwards
\* resolves the same Document, and the upload has exactly one Document.
C2_RetryReusesDocument ==
  \A r1 \in RunIds, r2 \in RunIds :
    (/\ r1 \in runs[r2].after
     /\ runs[r1].upload = runs[r2].upload
     /\ runs[r1].pc = "failed"
     /\ runs[r1].failure_type = "processing_failed"
     /\ runs[r1].document # NoDocument
     /\ runs[r2].document # NoDocument)
    => /\ runs[r2].document = runs[r1].document
       /\ Cardinality(DocumentsOfUpload(documents, runs[r1].upload)) = 1

\* C3: at no time are two pipeline runs active for the same upload id.
C3_OneActiveRunPerUpload ==
  \A u \in UploadIds : Cardinality(ActiveRuns(u)) <= 1

\* C4: a Document's status only ever changes processing -> completed or
\* processing -> failed.
C4_DocumentStatusNeverReverses ==
  [][\A d \in DOMAIN documents :
       (d \in DOMAIN documents' /\ documents'[d].status # documents[d].status)
       => /\ documents[d].status = "processing"
          /\ documents'[d].status \in {"completed", "failed"}]_vars

\* C5: once a session's document_id holds a document id, no step changes it.
C5_DocumentIdSetOnce ==
  [][\A u \in DOMAIN sessions :
       (u \in DOMAIN sessions' /\ sessions[u].document_id # NoDocument)
       => sessions'[u].document_id = sessions[u].document_id]_vars

\* position of a status on the path init -> uploading -> pending -> processing
\* -> {completed | failed}
StatusRank(st) ==
  CASE st = "init" -> 0
    [] st = "uploading" -> 1
    [] st = "pending" -> 2
    [] st = "processing" -> 3
    [] OTHER -> 4

\* C6: every change of a session's status moves forward along init ->
\* uploading -> pending -> processing -> {completed | failed}, or is the retry
\* edge failed -> pending; so 'completed' is never left and no step moves a
\* session back to 'uploading' or 'init'.
C6_SessionStatusFollowsEdges ==
  [][\A u \in DOMAIN sessions :
       (u \in DOMAIN sessions' /\ sessions'[u].status # sessions[u].status)
       => \/ StatusRank(sessions[u].status) < StatusRank(sessions'[u].status)
          \/ sessions[u].status = "failed" /\ sessions'[u].status = "pending"]_vars

\* the step is a retry request for upload u that was accepted: it changed a
\* session or a document, started a run or dispatched the pipeline task
RetryAccepted(u) ==
  /\ \/ RetryDocumentProcessing(u)
     \/ RetryDocumentProcessingTask(u)
     \/ \E d \in DocumentIds :
          d \in DOMAIN documents /\ documents[d].upload = u /\ RetryDocument(d)
  /\ <<sessions, documents, runs, celery_queue>>' # <<sessions, documents, runs, celery_queue>>

\* C7: a retry request is accepted only for a session whose status is
\* 'failed'; for any other session it is rejected and changes nothing.
C7_RetryOnlyFailedSessions ==
  [][\A u \in UploadIds :
       (u \in DOMAIN sessions /\ RetryAccepted(u)) => sessions[u].status = "failed"]_vars

\* the chunk rows a run has built for its Document (the values it passes to
\* DocumentChunk in the persist step)
HasBuiltChunks(r) == runs[r].pc \in {"chunked", "embedded", "done", "failed"}

C10_TokenCountBelowCeiling ==
  chunker_pc = "done"
  => \A i \in 1..Len(chunker_result) : chunker_result[i].token_count <= max_chunk_size

RECURSIVE SumSentenceCount(_, _)
\* sum(chunk["sentence_count"] for chunk in chunks[:n])
SumSentenceCount(chunk_list, n) ==
  IF n = 0 THEN 0 ELSE SumSentenceCount(chunk_list, n - 1) + chunk_list[n].sentence_count

\* C11: every sentence of the text is contained in at least one chunk that
\* chunk_text returns, every chunk counts the sentences it contains, and so the
\* sum of sentence_count over the chunks is at least the number of sentences.
C11_NoSentenceDropped ==
  chunker_pc = "done"
  => /\ \A i \in 1..Len(chunker_text) :
          \E c \in 1..Len(chunker_result) :
            \E k \in 1..Len(chunker_result[c].content) : chunker_result[c].content[k] = i
     /\ \A c \in 1..Len(chunker_result) :
          chunker_result[c].sentence_count = Len(chunker_result[c].content)
     /\ SumSentenceCount(chunker_result, Len(chunker_result)) >= Len(chunker_text)

\* chunk_text has returned for a text of several sentences where an overlap
\* seed repeated a sentence and the merge post-pass joined two chunks
C11_Witness ==
  /\ chunker_pc = "done"
  /\ Len(chunker_text) = MaxSentences
  /\ SumSentenceCount(chunker_result, Len(chunker_result)) > Len(chunker_text)
  /\ \E c \in 1..Len(chunker_result) :
       c < Len(chunker_result) /\ chunker_result[c + 1].chunk_index > chunker_result[c].chunk_index + 1

\* the exceptions whose cause is the source bytes or their transport: the
\* missing object of the download step, and network/timeout errors
UploadCauseMessages == {DownloadFailedMessage, "connection timeout"}

\* C12: a run that ended with an exception is classified upload_failed when the
\* cause is a missing source file, a storage, format, size, network or timeout
\* error, and processing_failed for every other exception.
C12_FailureClassification ==
  \A r \in RunIds :
    runs[r].pc = "failed"
    => runs[r].failure_type = IF runs[r].error \in UploadCauseMessages
                              THEN "upload_failed"
                              ELSE "processing_failed"

\* the Document of run r's upload that exists while r runs: the one the run
\* resolved or created, else the one the commit linked to the session
DocumentOfRun(r) ==
  IF runs[r].document # NoDocument
  THEN {runs[r].document}
  ELSE {d \in DOMAIN documents :
          runs[r].upload \in DOMAIN sessions /\ sessions[runs[r].upload].document_id = d}

\* C13: when a pipeline run ends with an exception and a Document of its upload
\* exists, the failing step leaves that Document 'failed' and linked to the
\* session (document_id), so that the next run finds it.
C13_FailedRunMarksDocumentFailed ==
  [][\A r \in 1..MaxRuns :
       (/\ r \in RunIds
        /\ runs[r].pc # "failed"
        /\ runs'[r].pc = "failed"
        /\ runs[r].upload \in DOMAIN sessions)
       => \A d \in DocumentOfRun(r) :
            /\ documents'[d].status = "failed"
            /\ sessions'[runs[r].upload].document_id = d]_vars

\* C14: once a pipeline run has ended, by success or by an exception, the
\* temporary file its download step wrote no longer exists.
C14_TempFileRemovedOnExit ==
  \A r \in RunIds : runs[r].pc \in EndedPc => runs[r].file_path = FALSE

\* C15: no pipeline run ends with an exception because the status broadcast
\* raised: a run whose steps all succeed returns success whatever the event
\* sink does.
C15_BroadcastFailureNeverFailsRun ==
  \A r \in RunIds : runs[r].pc = "failed" => runs[r].error # BroadcastFailedMessage

\* the raw score a candidate has in a list of rows: the row's score, 0 when
\* the list does not hold the chunk
KeywordScoreOf(id) ==
  IF \E i \in 1..Len(search_rows.bm25) : search_rows.bm25[i].id = id
  THEN bm25_score(search_rows.bm25[CHOOSE i \in 1..Len(search_rows.bm25) :
                                     search_rows.bm25[i].id = id].match)
  ELSE 0

VectorScoreOf(id) ==
  IF \E i \in 1..Len(search_rows.dense) : search_rows.dense[i].id = id
  THEN search_rows.dense[CHOOSE i \in 1..Len(search_rows.dense) :
                           search_rows.dense[i].id = id].dense_score
  ELSE 0

CandidateIds ==
  {search_rows.bm25[i].id : i \in 1..Len(search_rows.bm25)}
    \cup {search_rows.dense[i].id : i \in 1..Len(search_rows.dense)}

InUnitInterval(f) == 0 <= f.num /\ f.num <= f.den

C19_SortedWithIdTieBreak ==
  search_pc = "searched"
  => LET res == search_result.results
     IN /\ Len(res) <= search_result.limit
        /\ \A i \in 1..Len(res), j \in 1..Len(res) :
             i < j
             => /\ FracGeq(res[i].combined_score, res[j].combined_score)
                /\ FracEq(res[i].combined_score, res[j].combined_score)
                   => res[i].id < res[j].id

\* C20: hybrid_search does not raise when exactly one of the two sub-searches
\* fails, and raises when both fail.
C20_RaisesOnlyWhenBothFail ==
  search_pc = "searched"
  => /\ (search_result.bm25_fails # search_result.dense_fails) => ~search_result.raised
     /\ (search_result.bm25_fails /\ search_result.dense_fails) => search_result.raised

\* C21: with the embedding backend unavailable hybrid_search does not raise,
\* returns keyword-search candidates only (no vector score), as many as the
\* limit allows, and in descending order of keyword score: a candidate with a
\* higher keyword score is never below one with a lower keyword score.
C21_KeywordOnlyWhenNoBackend ==
  search_pc = "searched"
  => LET res == search_result.results
         n == IF search_result.bm25_fails THEN 0 ELSE Len(search_rows.bm25)
     IN /\ ~search_result.raised
        /\ Len(res) = IF n < search_result.limit THEN n ELSE search_result.limit
        /\ \A i \in 1..Len(res) :
             /\ \E k \in 1..Len(search_rows.bm25) : search_rows.bm25[k].id = res[i].id
             /\ res[i].bm25_score = KeywordScoreOf(res[i].id)
             /\ res[i].dense_score = 0
        /\ \A i \in 1..Len(res), j \in 1..Len(res) :
             i < j => res[i].bm25_score >= res[j].bm25_score
        /\ \A k \in 1..Len(search_rows.bm25) :
             (\A i \in 1..Len(res) : res[i].id # search_rows.bm25[k].id)
             => \A i \in 1..Len(res) :
                  res[i].bm25_score >= bm25_score(search_rows.bm25[k].match)

\* hybrid_search has returned two keyword candidates of different keyword
\* score while the chunk table holds rows with vectors, one of them a chunk
\* the keyword query did not return
C21_Witness ==
  /\ search_pc = "searched"
  /\ ~search_result.bm25_fails
  /\ Len(search_result.results) = 2
  /\ search_result.results[1].bm25_score > search_result.results[2].bm25_score
  /\ \E j \in 1..Len(search_rows.dense) :
       \A k \in 1..Len(search_rows.bm25) : search_rows.bm25[k].id # search_rows.dense[j].id

\* values of alpha a request can carry (tenths), Field(ge=0.0, le=1.0)
AlphaValues == {0, 3, 5, 7, 10}

\* the candidates whose vector score is strictly greater than that of every
\* other candidate (at most one)
DominatingIds ==
  {d \in CandidateIds : \A x \in CandidateIds \ {d} : VectorScoreOf(d) > VectorScoreOf(x)}

\* index of chunk id in a ranked result
PositionOf(res, id) == CHOOSE i \in 1..Len(res) : res[i].id = id

\* _combine_results on the same result lists and the same beta with alpha2
RankedWith(alpha2) ==
  combine_results(bm25_rows_to_results(search_rows.bm25),
                  dense_rows_to_results(search_rows.dense),
                  alpha2, search_rows.beta)

\* C22: for the same candidate lists and the same beta, a chunk whose vector
\* score is strictly greater than every other candidate's is, in the ranking
\* for any alpha2 >= alpha, at a position not worse than in the ranking for
\* alpha.
C22_MonotonicInAlpha ==
  search_pc = "combined"
  => \A d \in DominatingIds :
       \A alpha2 \in AlphaValues :
         alpha2 >= search_rows.alpha
         => PositionOf(RankedWith(alpha2), d) <= PositionOf(search_result.results, d)

\* a chunk with the strictly greatest vector score is ranked below another
\* candidate for alpha and first for a greater alpha
C22_Witness ==
  /\ search_pc = "combined"
  /\ \E d \in DominatingIds :
       /\ PositionOf(search_result.results, d) > 1
       /\ \E alpha2 \in AlphaValues :
            alpha2 > search_rows.alpha /\ PositionOf(RankedWith(alpha2), d) = 1

\* number of provider calls a batch of n texts takes when none of them raises
CallsNeeded(n, provider) ==
  IF n = 0 THEN 0
  ELSE IF provider = "openai"
       THEN (n + openai_batch_size - 1) \div openai_batch_size
       ELSE 1

\* C23: generate_embeddings_batch returns one vector per input text, in input
\* order, for every batch length: consecutive sub-batches of at most the
\* per-call size, results concatenated in order; when a provider call raises,
\* the exception reaches the caller and no call is made again.
C23_OneVectorPerTextInOrder ==
  embed_pc = "done"
  => LET texts == embed_call.texts
         needed == CallsNeeded(Len(texts), embed_call.provider)
     IN IF embed_call.fail_at \in 1..needed
        THEN /\ embed_result.raised
             /\ embed_result.calls = embed_call.fail_at
        ELSE /\ ~embed_result.raised
             /\ embed_result.calls = needed
             /\ Len(embed_result.embeddings) = Len(texts)
             /\ \A k \in 1..Len(texts) : embed_result.embeddings[k] = embedding_of(texts[k])

\* a batch of more than two sub-batches of the OpenAI provider has been
\* embedded without an exception
C23_Witness ==
  /\ embed_pc = "done"
  /\ embed_call.provider = "openai"
  /\ Len(embed_call.texts) > 2 * openai_batch_size
  /\ ~embed_result.raised
  /\ embed_result.calls = 3
  /\ Len(embed_result.embeddings) = Len(embed_call.texts)

\* C24: the answer to a status request for an upload id with a session, in
\* any status, is a result (200) carrying the session's status, document id
\* and last error message (with failure classification and retryable flag);
\* for an upload id without a session it is not-found (404).
C24_StatusOfEverySession ==
  [][\A u \in UploadIds :
       GetProcessingStatus(u)
       => IF u \in DOMAIN sessions
          THEN /\ status_response'.status_code = 200
               /\ status_response'.body # None
               /\ status_response'.body.status = sessions[u].status
               /\ status_response'.body.document_id = sessions[u].document_id
               /\ status_response'.body.error_message = sessions[u].error_message
          ELSE status_response'.status_code = 404]_vars

\* C25: chunk_text on an empty or whitespace-only text (a text that holds no
\* sentence) returns the empty chunk list.
C25_EmptyTextNoChunks ==
  (chunker_pc = "done" /\ chunker_text = <<>>) => chunker_result = <<>>

\* chunk_text has returned for the text without sentences
C25_Witness ==
  /\ chunker_pc = "done"
  /\ chunker_text = <<>>
  /\ Len(chunker_result) = 0

\* the step deletes an upload session, directly or by a cleanup of failed
\* sessions
SessionDeleted ==
  /\ DOMAIN sessions' # DOMAIN sessions
  /\ \/ \E u \in UploadIds : DeleteUploadSession(u)
     \/ \E u \in UploadIds : CleanupFailedProcessingTask(u)
     \/ \E old \in SUBSET UploadIds : CleanupFailedUploadsTask(old)

\* C26: deleting a Document deletes all of its chunks, leaves the chunks of
\* other Documents and every upload session unchanged; deleting an upload
\* session (directly or by the cleanup of failed sessions) changes no Document
\* and no chunk; after every step each stored chunk references an existing
\* Document.
C26_DeleteCascade ==
  [][(\A d \in DOMAIN documents :
        DeleteDocument(d)
        => /\ d \notin DOMAIN documents'
           /\ \A i \in 1..Len(chunks') : chunks'[i].document_id # d
           /\ chunks' = SelectSeq(chunks, LAMBDA c : c.document_id # d)
           /\ sessions' = sessions)
     /\ (SessionDeleted => (documents' = documents /\ chunks' = chunks))
     /\ (\A i \in 1..Len(chunks') : chunks'[i].document_id \in DOMAIN documents')]_vars

\* a Document has been deleted while a session still holds its id, and the
\* chunk table holds a chunk of another Document
C26_Witness ==
  /\ \E d \in 1..(next_document_id - 1) :
       /\ d \notin DOMAIN documents
       /\ \E u \in DOMAIN sessions : sessions[u].document_id = d
  /\ Len(chunks) > 0
  /\ \A i \in 1..Len(chunks) : chunks[i].document_id \in DOMAIN documents

\* summed token count of the last k sentences of a chunk's content
RECURSIVE SuffixTokens(_, _)
SuffixTokens(content, k) ==
  IF k = 0
  THEN 0
  ELSE chunker_text[content[Len(content) - k + 1]] + SuffixTokens(content, k - 1)

\* length of the longest suffix of the content whose summed token count is
\* within the overlap budget
SeedLength(content) ==
  IF chunk_overlap = 0
  THEN 0
  ELSE CHOOSE k \in 0..Len(content) :
         /\ SuffixTokens(content, k) <= chunk_overlap
         /\ \A j \in 0..Len(content) : SuffixTokens(content, j) <= chunk_overlap => j <= k

\* C27: in the chunks _create_chunks_from_sentences builds, every chunk after
\* a closed chunk starts with the longest contiguous suffix of the closed
\* chunk's sentences whose summed token count is <= chunk_overlap, in original
\* order, followed by the sentences that come next in the text, and its
\* token count is the sum of the seed and of the new sentences; the seed is
\* empty when the last sentence of the closed chunk alone exceeds the budget.
C27_OverlapSeedIsLongestSuffix ==
  chunker_pc = "grouped"
  => \A c \in 1..(Len(chunker_result) - 1) :
       LET closed == chunker_result[c].content
           next == chunker_result[c + 1].content
           k == SeedLength(closed)
           last == closed[Len(closed)]
       IN /\ Len(next) >= k
          /\ SubSeq(next, 1, k) = SubSeq(closed, Len(closed) - k + 1, Len(closed))
          /\ \A j \in (k + 1)..Len(next) : next[j] = last + (j - k)
          /\ chunker_result[c + 1].token_count = SuffixTokens(next, Len(next))
          /\ chunker_text[last] > chunk_overlap => k = 0

\* a chunk has been closed whose last two sentences together fit the overlap
\* budget, and the next chunk starts with both of them
C27_Witness ==
  /\ chunker_pc = "grouped"
  /\ \E c \in 1..(Len(chunker_result) - 1) :
       /\ SeedLength(chunker_result[c].content) = 2
       /\ Len(chunker_result[c + 1].content) = 3

\* the ways n chunks, in order, fall into m groups of consecutive chunks
Groupings(n, m) ==
  {g \in [1..n -> 1..m] :
     /\ n > 0 => (g[1] = 1 /\ g[n] = m)
     /\ \A i \in 1..(n - 1) : g[i + 1] \in {g[i], g[i] + 1}}

\* content, token count and sentence count of group j of the first n chunks,
\* the chunks of the group taken in order
RECURSIVE GroupContent(_, _, _, _)
GroupContent(chunk_list, g, j, n) ==
  IF n = 0
  THEN <<>>
  ELSE GroupContent(chunk_list, g, j, n - 1)
         \o (IF g[n] = j THEN chunk_list[n].content ELSE <<>>)

RECURSIVE GroupTokens(_, _, _, _)
GroupTokens(chunk_list, g, j, n) ==
  IF n = 0
  THEN 0
  ELSE GroupTokens(chunk_list, g, j, n - 1)
         + (IF g[n] = j THEN chunk_list[n].token_count ELSE 0)

RECURSIVE GroupSentences(_, _, _, _)
GroupSentences(chunk_list, g, j, n) ==
  IF n = 0
  THEN 0
  ELSE GroupSentences(chunk_list, g, j, n - 1)
         + (IF g[n] = j THEN chunk_list[n].sentence_count ELSE 0)

\* C28: the merge post-pass joins consecutive chunks only: every chunk of its
\* output is one input chunk or several consecutive ones, with the contents
\* in order and the token counts and sentence counts added; a chunk that was
\* joined to its predecessor had fewer than chunk_size / 2 tokens; no join
\* yields a chunk above max_chunk_size; and every output chunk except the
\* first has token_count >= chunk_size / 2 or, with the preceding chunk's
\* token_count, exceeds max_chunk_size.
C28_MergePostPass ==
  [][OptimizeChunksCall
     => LET pre == chunker_result
            post == chunker_result'
            n == Len(pre)
            m == Len(post)
        IN /\ (n = 0) = (m = 0)
           /\ \E g \in Groupings(n, m) :
                /\ \A j \in 1..m :
                     /\ post[j].content = GroupContent(pre, g, j, n)
                     /\ post[j].token_count = GroupTokens(pre, g, j, n)
                     /\ post[j].sentence_count = GroupSentences(pre, g, j, n)
                /\ \A i \in 2..n :
                     g[i] = g[i - 1]
                     => /\ pre[i].token_count < chunk_size \div 2
                        /\ post[g[i]].token_count <= max_chunk_size
           /\ \A j \in 2..m :
                \/ post[j].token_count >= chunk_size \div 2
                \/ post[j - 1].token_count + post[j].token_count > max_chunk_size]_vars

\* the post-pass has joined a short chunk to its predecessor and returned at
\* least two chunks
C28_Witness ==
  /\ chunker_pc = "optimized"
  /\ Len(chunker_result) >= 2
  /\ Len(chunker_result) < Len(create_chunks_from_sentences(Sentences(chunker_text), 1))
  /\ \E j \in 1..Len(chunker_result) :
       chunker_result[j].sentence_count > 1 /\ chunker_result[j].token_count > chunk_size

\* the rows the persist step of run r has to store for its Document: for a
\* spreadsheet the row-group segments of the parser, in parser order, tagged
\* 'excel_sheet'; for any other media type the chunks of chunk_text, tagged
\* 'text'
RowsToPersist(r) ==
  LET f == storage[runs[r].upload]
      d == runs[r].document
  IN IF f.content_type \in SpreadsheetTypes
     THEN [i \in 1..f.segments |->
             [document_id |-> d, chunk_index |-> i - 1, content |-> <<i>>,
              chunk_type |-> "excel_sheet"]]
     ELSE LET text_chunks == chunk_text(f.text, d)
          IN [i \in 1..Len(text_chunks) |->
                [document_id |-> d, chunk_index |-> text_chunks[i].chunk_index,
                 content |-> text_chunks[i].content, chunk_type |-> "text"]]

\* the exceptions of collaborators that PipelineStepFails injects
CollaboratorErrors == {"connection timeout", "internal error"}

EarlierPc == {"queued", "started", "downloaded", "extracted", "documented", "chunked"}

\* run r is the only run of its upload: every other run of the upload had
\* ended when r began
RunsAlone(r) ==
  \A q \in RunIds \ {r} : runs[q].upload = runs[r].upload => q \in runs[r].after

\* C30: a run sets its session to 'completed' only in its last step, with the
\* session linked to the run's Document, that Document 'completed' and the
\* run's chunks stored; and a run that raises in an earlier step, alone on its
\* upload and with the session still in the 'processing' status the run gave
\* it, leaves neither the Document of its upload nor the session 'completed'.
C30_CompletedOnlyAtTheEnd ==
  [][\A r \in 1..MaxRuns :
       /\ (/\ r \in RunIds
           /\ runs[r].pc = "embedded"
           /\ runs'[r].pc = "done"
           /\ runs[r].upload \in DOMAIN sessions)
          => LET u == runs[r].upload
                 d == runs[r].document
             IN /\ sessions'[u].status = "completed"
                /\ sessions'[u].document_id = d
                /\ documents'[d].status = "completed"
                /\ \A i \in 1..Len(runs[r].chunks) :
                     \E k \in 1..Len(chunks') :
                       /\ chunks'[k].document_id = d
                       /\ chunks'[k].chunk_index = runs[r].chunks[i].chunk_index
       /\ (/\ r \in RunIds
           /\ runs[r].pc \in EarlierPc
           /\ runs'[r].pc = "failed"
           /\ runs[r].upload \in DOMAIN sessions
           /\ sessions[runs[r].upload].status = "processing"
           /\ RunsAlone(r))
          => /\ sessions'[runs[r].upload].status # "completed"
             /\ \A d \in DocumentOfRun(r) : documents'[d].status # "completed"]_vars

====
